---- MODULE Spec2Model ----
(***************************************************************************)
(* imweb: an immediate-mode UI layer over a 2D canvas.                     *)
(*                                                                         *)
(* The model covers the two attempts of the repository:                    *)
(*   attempt 001: input.js, rendering.js, button.js, slider.js, the legacy *)
(*                layout.js (resetLayout / vStack) and index.js;           *)
(*   attempt 002: input.js, button.js (with onClick), layout.js            *)
(*                (flexRow / flexColumn), highLevelButton.js and index.js. *)
(*                                                                         *)
(* JavaScript is single threaded and runs every callback to completion, so *)
(* each event listener and each mainLoop call is one action.               *)
(***************************************************************************)
EXTENDS Integers, Sequences, FiniteSets, TLC

VARIABLES
    mouseX, mouseY, isMouseClicked,  \* input.js module state
    rect,          \* canvas.getBoundingClientRect() (fixed: the canvas never moves)
    app,           \* which index.js was started: "001" or "002"
    components,    \* attempt 001 index.js: the component list
    ui,            \* attempt 002 index.js: the root container
    value,         \* createSlider's closure variable `value`
    offsets,       \* flexRow / flexColumn closure variables xOffset / yOffset, by container
    yOffset,       \* legacy layout.js module variable
    stacked,       \* history: whether resetLayout() has run, and the vStack calls since
    clicks,        \* number of times each callback (or console.log line) ran, by label
    running,       \* mainLoop is scheduled with requestAnimationFrame
    last,          \* history: the step that led to this state, with the frame's log
    renders,       \* history: number of ui.render calls so far
    firstPlaced,   \* history: the child origins logged by the first ui.render
    pressClicks,   \* history: onClick invocations since the last mousedown
    sentMove,      \* history: canvas-local point of the last mousemove the host sent
    sentDown       \* history: TRUE iff the last button event the host sent was mousedown

vars == <<mouseX, mouseY, isMouseClicked, rect, app, components, ui, value, offsets,
          yOffset, stacked, clicks, running, last, renders, firstPlaced, pressClicks,
          sentMove, sentDown>>

(***************************************************************************)
(* Bounds of the model.                                                    *)
(***************************************************************************)
MaxClicks == 2      \* callbacks are counted up to this many invocations
MaxRenders == 3     \* ui.render calls explored in attempt 002
MaxChildren == 2    \* children of the root container in attempt 002
MaxStack == 3       \* vStack calls explored between two resetLayout calls

(***************************************************************************)
(* JavaScript numbers.  A number is a pair <<n, d>>: the rational n/d in   *)
(* lowest terms with d > 0, or a non-finite value with d = 0 (<<0,0>> is   *)
(* NaN, <<1,0>> is Infinity, <<-1,0>> is -Infinity).  Arithmetic is exact  *)
(* where IEEE doubles round; every value the model computes from integer   *)
(* pointer coordinates is a deterministic function of its operands in both.*)
(***************************************************************************)
Abs(n) == IF n < 0 THEN -n ELSE n

Sign(n) == IF n < 0 THEN -1 ELSE IF n > 0 THEN 1 ELSE 0

RECURSIVE GCD(_, _)
GCD(a, b) == IF b = 0 THEN a ELSE GCD(b, a % b)

Norm(n, d) ==
    IF d = 0 THEN <<Sign(n), 0>>
    ELSE LET g == GCD(Abs(n), Abs(d))
         IN  <<(Sign(d) * n) \div g, Abs(d) \div g>>

Num(n) == <<n, 1>>

NaN == <<0, 0>>

\* JavaScript values are tuples: <<>> is undefined, <<n, d>> a number, <<name>> a function.
undefined == <<>>

Fn(name) == <<name>>

IsNaN(a) == a = NaN

JsAdd(a, b) ==
    IF IsNaN(a) \/ IsNaN(b) THEN NaN
    ELSE IF a[2] = 0 /\ b[2] = 0 THEN (IF a[1] = b[1] THEN a ELSE NaN)
    ELSE IF a[2] = 0 THEN a
    ELSE IF b[2] = 0 THEN b
    ELSE Norm(a[1] * b[2] + b[1] * a[2], a[2] * b[2])

JsSub(a, b) == JsAdd(a, <<-b[1], b[2]>>)

JsMul(a, b) ==
    IF IsNaN(a) \/ IsNaN(b) THEN NaN
    ELSE IF a[2] = 0 \/ b[2] = 0 THEN <<Sign(a[1]) * Sign(b[1]), 0>>
    ELSE Norm(a[1] * b[1], a[2] * b[2])

JsDiv(a, b) ==
    IF IsNaN(a) \/ IsNaN(b) THEN NaN
    ELSE IF a[2] = 0 /\ b[2] = 0 THEN NaN
    ELSE IF a[2] = 0 THEN <<a[1] * (IF b[1] < 0 THEN -1 ELSE 1), 0>>
    ELSE IF b[2] = 0 THEN Num(0)
    ELSE IF b[1] = 0 THEN <<Sign(a[1]), 0>>
    ELSE Norm(a[1] * b[2], a[2] * b[1])

\* ToNumber of a property that may be absent: undefined converts to NaN.
ToNumber(v) == IF v = undefined THEN NaN ELSE v

(***************************************************************************)
(* input.js                                                                *)
(***************************************************************************)
\* Pointer positions (canvas-local) the host reports: the edges, the inside and the
\* outside of the widgets of each attempt's index.js.
PointerXs == IF app = "001" THEN {0, 50, 51, 150, 200, 250, 251} ELSE {0, 50, 120}

PointerYs == IF app = "001" THEN {0, 50, 51, 100, 150, 155, 160} ELSE {0, 20, 40}

Rects == {[left |-> 0, top |-> 0], [left |-> 8, top |-> 8]}

\* The mousemove event the host delivers for the canvas-local point (px, py):
\* clientX / clientY are viewport coordinates.
MouseEvent(px, py) == [clientX |-> rect.left + px, clientY |-> rect.top + py]

getMousePosition(st) == [mouseX |-> st.mouseX, mouseY |-> st.mouseY]

isClicked(st) == st.isMouseClicked

\* faulty variant: the viewport coordinate is stored without subtracting the canvas's left edge
localXClient(e, r) == e.clientX

localX(e, r) == e.clientX - r.left

localY(e, r) == e.clientY - r.top

(***************************************************************************)
(* Widget constructors.  x, y, w, h are the closure parameters; width and  *)
(* height are the properties the returned object exposes (undefined when   *)
(* the object has none).                                                   *)
(***************************************************************************)
\* attempt 002 components/button.js
createButton(label, x, y, width, height, onClick) ==
    [kind |-> "button", label |-> label, x |-> x, y |-> y, w |-> width, h |-> height,
     onClick |-> onClick, width |-> undefined, height |-> undefined]

\* attempt 001 components/button.js
createButton001(label, x, y, width, height) ==
    [kind |-> "button001", label |-> label, x |-> x, y |-> y, w |-> width, h |-> height,
     width |-> Num(width), height |-> Num(height)]

createSlider(min, max, value0, x, y, width, height) ==
    [kind |-> "slider", min |-> min, max |-> max, value0 |-> Num(value0),
     x |-> x, y |-> y, w |-> width, h |-> height,
     width |-> Num(width), height |-> Num(height)]

\* layout.js: const { spacing = 10, padding = 0 } = options
spacingOf(options) == IF "spacing" \in DOMAIN options THEN options.spacing ELSE 10

paddingOf(options) == IF "padding" \in DOMAIN options THEN options.padding ELSE 0

\* `id` names the closure (the instance) that holds the container's running offset.
flexRow(id, children, options) ==
    [kind |-> "flexRow", id |-> id, children |-> children,
     spacing |-> spacingOf(options), padding |-> paddingOf(options),
     width |-> undefined, height |-> undefined]

flexColumn(id, children, options) ==
    [kind |-> "flexColumn", id |-> id, children |-> children,
     spacing |-> spacingOf(options), padding |-> paddingOf(options),
     width |-> undefined, height |-> undefined]

highLevelButton(label, width, height, onClick) ==
    [kind |-> "highLevelButton", label |-> label,
     button |-> createButton(label, 0, 0, width, height, onClick),
     width |-> Num(width), height |-> Num(height)]

(***************************************************************************)
(* The state a frame threads through the traversal: the module and closure *)
(* variables the renders read and write, the log of what the frame did     *)
(* (history), and the exception in flight, if any.                         *)
(***************************************************************************)
Log(st, entry) == [st EXCEPT !.log = Append(@, entry)]

Throw(st, error) == [st EXCEPT !.thrown = error]

\* faulty variant: the callback consumes the click (clears the down flag) before it runs
CallConsumingClick(f, st) ==
    IF f = undefined THEN [st EXCEPT !.thrown = "TypeError"]
    ELSE LET ran == [st EXCEPT !.clicks[f[1]] = @ + 1, !.isMouseClicked = FALSE]
         IN  IF f = Fn("fails") THEN Throw(ran, "Error") ELSE ran

\* Calling f(): a TypeError when f is not a function; the callbacks of the
\* index files write one console.log line.  A caller's callback may throw
\* (the one named "fails" does): render has no try/catch, so the exception
\* leaves render and everything above it.
Call(f, st) ==
    IF f = undefined THEN Throw(st, "TypeError")
    ELSE LET ran == [st EXCEPT !.clicks[f[1]] = @ + 1]
         IN  IF f = Fn("fails") THEN Throw(ran, "Error") ELSE ran

\* faulty variant: the left and top edges count as inside (>= for >)
isHoveredHalfOpen(mx, my, x, y, width, height) ==
    mx >= x /\ mx < x + width /\ my >= y /\ my < y + height

\* faulty variant: all four edges count as inside (>= for >, <= for <)
isHoveredClosed(mx, my, x, y, width, height) ==
    mx >= x /\ mx <= x + width /\ my >= y /\ my <= y + height

\* button.js: mouseX > x && mouseX < x + width && mouseY > y && mouseY < y + height
isHovered(mx, my, x, y, width, height) ==
    mx > x /\ mx < x + width /\ my > y /\ my < y + height

\* faulty variant: the drag guard has no test against the right edge
inBoundsNoRight(mx, my, x, y, width, height) ==
    mx > x /\ my > y /\ my < y + height

\* faulty variant: the drag guard looks at the pointer's x only
inBoundsAnyY(mx, my, x, y, width, height) ==
    mx > x /\ mx < x + width

\* slider.js: the same test in the drag guard
inBounds(mx, my, x, y, width, height) ==
    mx > x /\ mx < x + width /\ my > y /\ my < y + height

\* faulty variant: the `&& onClick` guard is missing
shouldClickUnguarded(hovered, clicked, onClick) == hovered /\ clicked

\* faulty variant: the callback runs on the frames the button is not held down
shouldClickReleased(hovered, clicked, onClick) ==
    hovered /\ ~clicked /\ onClick # undefined

\* button.js (002): isHovered && isClicked() && onClick
shouldClick(hovered, clicked, onClick) ==
    hovered /\ clicked /\ onClick # undefined

\* faulty variant: the fraction is not scaled by (max - min)
dragValueUnscaled(min, max, mx, x, width) ==
    JsAdd(Num(min), JsDiv(Num(mx - x), Num(width)))

\* faulty variant: the drag adds to the current value instead of overwriting it
dragValueDelta(min, max, mx, x, width) ==
    JsAdd(value, JsMul(JsDiv(Num(mx - x), Num(width)), Num(max - min)))

\* slider.js: value = min + ((mouseX - x) / width) * (max - min)
dragValue(min, max, mx, x, width) ==
    JsAdd(Num(min), JsMul(JsDiv(Num(mx - x), Num(width)), Num(max - min)))

\* slider.js: sliderPos = ((value - min) / (max - min)) * width
sliderPos(v, min, max, width) ==
    JsMul(JsDiv(JsSub(v, Num(min)), Num(max - min)), Num(width))

ButtonRender(b, x, y, st) ==
    LET pos == getMousePosition(st)
        hovered == isHovered(pos.mouseX, pos.mouseY, b.x, b.y, b.w, b.h)
        fire == shouldClick(hovered, isClicked(st), b.onClick)
        st1 == Log(st, [op |-> "button", label |-> b.label, at |-> <<x, y>>,
                        read |-> <<pos.mouseX, pos.mouseY, isClicked(st)>>,
                        rect |-> <<b.x, b.y, b.w, b.h>>,
                        hovered |-> hovered, fired |-> fire, onClick |-> b.onClick])
    IN  IF fire THEN Call(b.onClick, st1) ELSE st1

Button001Render(b, x, y, st) ==
    LET pos == getMousePosition(st)
        hovered == isHovered(pos.mouseX, pos.mouseY, b.x, b.y, b.w, b.h)
        fire == hovered /\ isClicked(st)
        st1 == Log(st, [op |-> "button", label |-> b.label, at |-> <<x, y>>,
                        read |-> <<pos.mouseX, pos.mouseY, isClicked(st)>>,
                        rect |-> <<b.x, b.y, b.w, b.h>>,
                        hovered |-> hovered, fired |-> fire, onClick |-> Fn(b.label)])
    IN  IF fire THEN Call(Fn(b.label), st1) ELSE st1

\* faulty variant: a drag consumes the press (clears the down flag)
SliderRenderReleasing(s, x, y, st) ==
    LET pos == getMousePosition(st)
        inside == inBounds(pos.mouseX, pos.mouseY, s.x, s.y, s.w, s.h)
        drag == inside /\ isClicked(st)
        st1 == Log(st, [op |-> "slider", at |-> <<x, y>>,
                        read |-> <<pos.mouseX, pos.mouseY, isClicked(st)>>,
                        rect |-> <<s.x, s.y, s.w, s.h>>,
                        handle |-> sliderPos(st.value, s.min, s.max, s.w),
                        hovered |-> inside, fired |-> drag])
    IN  IF drag
        THEN [st1 EXCEPT !.value = dragValue(s.min, s.max, pos.mouseX, s.x, s.w),
                         !.isMouseClicked = FALSE]
        ELSE st1

SliderRender(s, x, y, st) ==
    LET pos == getMousePosition(st)
        inside == inBounds(pos.mouseX, pos.mouseY, s.x, s.y, s.w, s.h)
        drag == inside /\ isClicked(st)
        st1 == Log(st, [op |-> "slider", at |-> <<x, y>>,
                        read |-> <<pos.mouseX, pos.mouseY, isClicked(st)>>,
                        rect |-> <<s.x, s.y, s.w, s.h>>,
                        handle |-> sliderPos(st.value, s.min, s.max, s.w),
                        hovered |-> inside, fired |-> drag])
    IN  IF drag
        THEN [st1 EXCEPT !.value = dragValue(s.min, s.max, pos.mouseX, s.x, s.w)]
        ELSE st1

(***************************************************************************)
(* layout.js (002) and highLevelButton.js.  render(ctx) of a container     *)
(* takes no origin: what a parent passes is dropped.  st.origin is history:*)
(* the position most recently handed to the enclosing widget (the root is  *)
(* rendered at (0, 0)).                                                    *)
(***************************************************************************)
RECURSIVE renderWidget(_, _, _, _)
RECURSIVE forEachRow(_, _, _)
RECURSIVE forEachColumn(_, _, _)

\* flexRow: child.render(ctx, xOffset, padding)
rowChildAt(xOffset, padding) == <<xOffset, Num(padding)>>

\* flexColumn: child.render(ctx, padding, yOffset)
columnChildAt(yOffset_, padding) == <<Num(padding), yOffset_>>

\* xOffset += child.width + spacing
advance(offset, size, spacing) == JsAdd(offset, JsAdd(ToNumber(size), Num(spacing)))

forEachRow(c, i, st) ==
    IF i > Len(c.children) \/ st.thrown # "none" THEN st
    ELSE LET child == c.children[i]
             xOffset == st.offsets[c.id]
             at == rowChildAt(xOffset, c.padding)
             st1 == Log(st, [op |-> "place", container |-> c.id, kind |-> c.kind,
                             origin |-> st.origin, index |-> i, padding |-> c.padding,
                             offset |-> xOffset, at |-> at])
             st2 == renderWidget(child, at[1], at[2], st1)
             st3 == IF st2.thrown # "none" THEN st2
                    ELSE [st2 EXCEPT !.offsets[c.id] = advance(@, child.width, c.spacing)]
         IN  forEachRow(c, i + 1, st3)

forEachColumn(c, i, st) ==
    IF i > Len(c.children) \/ st.thrown # "none" THEN st
    ELSE LET child == c.children[i]
             yOffset_ == st.offsets[c.id]
             at == columnChildAt(yOffset_, c.padding)
             st1 == Log(st, [op |-> "place", container |-> c.id, kind |-> c.kind,
                             origin |-> st.origin, index |-> i, padding |-> c.padding,
                             offset |-> yOffset_, at |-> at])
             st2 == renderWidget(child, at[1], at[2], st1)
             st3 == IF st2.thrown # "none" THEN st2
                    ELSE [st2 EXCEPT !.offsets[c.id] = advance(@, child.height, c.spacing)]
         IN  forEachColumn(c, i + 1, st3)

flexRowRender(c, st) == forEachRow(c, 1, st)

flexColumnRender(c, st) == forEachColumn(c, 1, st)

\* `let xOffset = padding` in the constructor: the closure a new container starts with
newOffset(c) == Num(c.padding)

\* render(ctx, x, y) { flexRow([button], { padding: 5 }).render(ctx); }
highLevelButtonRender(w, x, y, st) ==
    LET row == flexRow("tmp", <<w.button>>, [padding |-> 5])
        st1 == Log(st, [op |-> "highLevelButton", label |-> w.label, at |-> <<x, y>>])
        st2 == [st1 EXCEPT !.offsets["tmp"] = newOffset(row)]
        st3 == flexRowRender(row, st2)
    IN  [st3 EXCEPT !.offsets["tmp"] = undefined]

renderWidget(w, x, y, st) ==
    LET st0 == [st EXCEPT !.origin = <<x, y>>]
        out == CASE w.kind = "button" -> ButtonRender(w, x, y, st0)
                 [] w.kind = "button001" -> Button001Render(w, x, y, st0)
                 [] w.kind = "slider" -> SliderRender(w, x, y, st0)
                 [] w.kind = "highLevelButton" -> highLevelButtonRender(w, x, y, st0)
                 [] w.kind = "flexRow" -> flexRowRender(w, st0)
                 [] w.kind = "flexColumn" -> flexColumnRender(w, st0)
    IN  [out EXCEPT !.origin = st.origin]

(***************************************************************************)
(* rendering.js (001) and the legacy layout.js                             *)
(***************************************************************************)
clearCanvas(st) == Log(st, [op |-> "clear"])

RECURSIVE forEachComponent(_, _, _)
\* components.forEach(component => component.render(ctx))
forEachComponent(cs, i, st) ==
    IF i > Len(cs) \/ st.thrown # "none" THEN st
    ELSE forEachComponent(cs, i + 1, renderWidget(cs[i], undefined, undefined, st))

render(cs, st) == forEachComponent(cs, 1, clearCanvas(st))

\* faulty variant: the spacing is left out of the running offset
vStackNoSpacing(component, spacing, st) ==
    [position |-> [x |-> Num(10), y |-> st.yOffset],
     st |-> [st EXCEPT !.yOffset = JsAdd(@, ToNumber(component.height))]]

\* vStack(component, spacing = 10): position = { x: 10, y: yOffset };
\* yOffset += component.height + spacing; return position
vStack(component, spacing, st) ==
    LET sp == IF spacing = undefined THEN Num(10) ELSE spacing
    IN  [position |-> [x |-> Num(10), y |-> st.yOffset],
         st |-> [st EXCEPT !.yOffset = JsAdd(@, JsAdd(ToNumber(component.height), sp))]]

\* yOffset = 10
resetLayout(st) == [st EXCEPT !.yOffset = Num(10)]

(***************************************************************************)
(* The index files.                                                        *)
(***************************************************************************)
\* attempt 001 index.js: resetLayout(); render(ctx, components, 800, 600);
mainLoop001(st) == render(components, resetLayout(st))

\* attempt 002 index.js: ctx.clearRect(0, 0, 800, 600); ui.render(ctx);
mainLoop002(st) == renderWidget(ui, Num(0), Num(0), clearCanvas(st))

ButtonLabels == <<"Click Me 1", "Click Me 2", "Click Me 3", "Click Me 4">>

CallbackNames == {"Click Me", "fails"} \cup {ButtonLabels[i] : i \in DOMAIN ButtonLabels}

ContainerIds == {"ui", "inner", "tmp"}

\* attempt 001 index.js: createSlider(0, 100, 50, 50, 150, 200, 10)
IndexSlider == createSlider(0, 100, 50, 50, 150, 200, 10)

\* the sliders a caller can build in its place: createSlider validates nothing, so
\* max = min is accepted as well
Sliders == {IndexSlider, createSlider(0, 0, 0, 50, 150, 200, 10)}

\* attempt 001 index.js: createButton('Click Me', 50, 50, 150, 50), built with the
\* button.js of attempt 001 or with the one of attempt 002, with or without onClick,
\* or with an onClick that throws, or with no width or no height
IndexButtons ==
    {createButton001("Click Me", 50, 50, 150, 50),
     createButton("Click Me", 50, 50, 150, 50, undefined),
     createButton("Click Me", 50, 50, 150, 50, Fn("Click Me")),
     createButton("Click Me", 50, 50, 150, 50, Fn("fails")),
     createButton("Click Me", 50, 50, 0, 50, Fn("Click Me")),
     createButton("Click Me", 50, 50, 150, 0, Fn("Click Me"))}

\* attempt 002 index.js: highLevelButton('Click Me i', 150, 50, () => console.log(...)),
\* other sizes, a row nested in the root container, and a slider as a child
LayoutSlider == createSlider(0, 100, 0, 0, 0, 150, 50)

Child(i, k) ==
    CASE k = "slider" -> LayoutSlider
      [] k = "big" -> highLevelButton(ButtonLabels[i], 150, 50, Fn(ButtonLabels[i]))
      [] k = "small" -> highLevelButton(ButtonLabels[i], 100, 30, Fn(ButtonLabels[i]))
      [] k = "row" -> flexRow("inner",
                              <<highLevelButton(ButtonLabels[i], 100, 30, Fn(ButtonLabels[i]))>>,
                              [spacing |-> 10, padding |-> 5])

ChildKinds(i) ==
    CASE i = 1 -> {"big", "small", "row"}
      [] i = 2 -> {"big", "small", "slider"}
      [] OTHER -> {"big", "small"}

ChildLists ==
    UNION {{[i \in 1..n |-> Child(i, ks[i])] :
               ks \in {f \in [1..n -> {"big", "small", "row", "slider"}] :
                          \A i \in 1..n : f[i] \in ChildKinds(i)}} :
           n \in 1..MaxChildren}

\* attempt 002 index.js: ui = flexColumn([button1, button2], { spacing: 20, padding: 20 })
IndexRoot ==
    flexColumn("ui", <<Child(1, "big"), Child(2, "big")>>, [spacing |-> 20, padding |-> 20])

RootOptions == {[spacing |-> 20, padding |-> 20], [padding |-> 0]}

Roots ==
    {flexRow("ui", cs, o) : cs \in ChildLists, o \in RootOptions}
        \cup {flexColumn("ui", cs, o) : cs \in ChildLists, o \in RootOptions}

\* the closures of the containers a widget tree holds, as their constructors leave them
RECURSIVE closuresOf(_)
closuresOf(w) ==
    IF w.kind \in {"flexRow", "flexColumn"}
    THEN {<<w.id, newOffset(w)>>}
             \cup UNION {closuresOf(w.children[i]) : i \in DOMAIN w.children}
    ELSE {}

initialOffsets(root) ==
    [id \in ContainerIds |->
        IF \E p \in closuresOf(root) : p[1] = id
        THEN (CHOOSE p \in closuresOf(root) : p[1] = id)[2]
        ELSE undefined]

(***************************************************************************)
(* The state machine.                                                      *)
(***************************************************************************)
RECURSIVE SumOver(_, _)
SumOver(f, S) ==
    IF S = {} THEN 0
    ELSE LET k == CHOOSE k \in S : TRUE IN f[k] + SumOver(f, S \ {k})

TotalClicks(c) == SumOver(c, DOMAIN c)

\* history: the origins the root container handed to its children in one frame
Placed(log) ==
    LET own == SelectSeq(log, LAMBDA e : e.op = "place" /\ e.container = "ui")
    IN  [i \in DOMAIN own |-> own[i].at]

\* the state a frame starts from
Frame ==
    [mouseX |-> mouseX, mouseY |-> mouseY, isMouseClicked |-> isMouseClicked,
     value |-> value, offsets |-> offsets, yOffset |-> yOffset, clicks |-> clicks,
     log |-> <<>>, thrown |-> "none", origin |-> <<Num(0), Num(0)>>]

\* what a frame leaves behind; an uncaught exception ends mainLoop before
\* requestAnimationFrame(mainLoop) is reached
Commit(st) ==
    /\ \A k \in DOMAIN st.clicks : st.clicks[k] <= MaxClicks
    /\ mouseX' = st.mouseX
    /\ mouseY' = st.mouseY
    /\ isMouseClicked' = st.isMouseClicked
    /\ value' = st.value
    /\ offsets' = st.offsets
    /\ yOffset' = st.yOffset
    /\ clicks' = st.clicks
    /\ running' = (st.thrown = "none")
    /\ last' = [kind |-> "frame", log |-> st.log, thrown |-> st.thrown]
    /\ pressClicks' = pressClicks + TotalClicks(st.clicks) - TotalClicks(clicks)

InitCommon ==
    /\ mouseX = 0
    /\ mouseY = 0
    /\ isMouseClicked = FALSE
    /\ rect \in Rects
    /\ yOffset = Num(0)
    /\ stacked = [reset |-> FALSE, calls |-> <<>>]
    /\ clicks = [k \in CallbackNames |-> 0]
    /\ running = TRUE
    /\ last = [kind |-> "init"]
    /\ renders = 0
    /\ firstPlaced = <<>>
    /\ pressClicks = 0
    /\ sentMove = <<0, 0>>
    /\ sentDown = FALSE

Init001 ==
    /\ InitCommon
    /\ app = "001"
    /\ \E b \in IndexButtons, s \in Sliders : components = <<b, s>>
    /\ ui = flexColumn("ui", <<>>, [padding |-> 0])   \* attempt 001 builds no container
    /\ value = components[2].value0
    /\ offsets = [id \in ContainerIds |-> undefined]

Init002 ==
    /\ InitCommon
    /\ app = "002"
    /\ components = <<>>
    /\ ui \in Roots
    /\ value = LayoutSlider.value0                   \* the closure of the one slider
    /\ offsets = initialOffsets(ui)

\* canvas.addEventListener('mousemove', ...)
MouseMove ==
    \E px \in PointerXs, py \in PointerYs :
        LET e == MouseEvent(px, py)
        IN  /\ mouseX' = localX(e, rect)
            /\ mouseY' = localY(e, rect)
            /\ last' = [kind |-> "mousemove", e |-> e]
            /\ sentMove' = <<px, py>>
            /\ UNCHANGED <<isMouseClicked, rect, app, components, ui, value, offsets,
                           yOffset, stacked, clicks, running, renders, firstPlaced, pressClicks,
                           sentDown>>

\* canvas.addEventListener('mousedown', ...)
MouseDown ==
    /\ isMouseClicked' = TRUE
    /\ last' = [kind |-> "mousedown"]
    /\ pressClicks' = 0
    /\ sentDown' = TRUE
    /\ UNCHANGED <<mouseX, mouseY, rect, app, components, ui, value, offsets,
                   yOffset, stacked, clicks, running, renders, firstPlaced, sentMove>>

\* faulty variant: the release is not stored, the press stays latched for the frames
\* that follow
MouseUpLatched ==
    /\ last' = [kind |-> "mouseup"]
    /\ sentDown' = FALSE
    /\ UNCHANGED <<mouseX, mouseY, isMouseClicked, rect, app, components, ui, value,
                   offsets, yOffset, stacked, clicks, running, renders, firstPlaced, pressClicks,
                   sentMove>>

\* canvas.addEventListener('mouseup', ...)
MouseUp ==
    /\ isMouseClicked' = FALSE
    /\ last' = [kind |-> "mouseup"]
    /\ sentDown' = FALSE
    /\ UNCHANGED <<mouseX, mouseY, rect, app, components, ui, value, offsets,
                   yOffset, stacked, clicks, running, renders, firstPlaced, pressClicks,
                   sentMove>>

\* attempt 001 index.js mainLoop
MainLoop001 ==
    /\ app = "001"
    /\ running
    /\ Commit(mainLoop001(Frame))
    /\ stacked' = [reset |-> TRUE, calls |-> <<>>]   \* mainLoop starts with resetLayout()
    /\ UNCHANGED <<rect, app, components, ui, renders, firstPlaced, sentMove, sentDown>>

\* attempt 002 index.js mainLoop
MainLoop002 ==
    /\ app = "002"
    /\ running
    /\ renders < MaxRenders
    /\ LET st == mainLoop002(Frame)
       IN  /\ Commit(st)
           /\ renders' = renders + 1
           /\ firstPlaced' = IF renders = 0 THEN Placed(st.log) ELSE firstPlaced
    /\ UNCHANGED <<rect, app, components, ui, stacked, sentMove, sentDown>>

Next001 == MouseMove \/ MouseDown \/ MouseUp \/ MainLoop001

Next002 == MouseMove \/ MouseDown \/ MouseUp \/ MainLoop002

Spec == Init001 /\ [][Next001]_vars

SpecLayout == Init002 /\ [][Next002]_vars

(***************************************************************************)
(* The legacy layout.js used by callers that build layouts with vStack.    *)
(* attempt 001 index.js imports resetLayout and vStack; its mainLoop calls *)
(* resetLayout() at the start of every frame.                              *)
(***************************************************************************)
\* the code that calls vStack: two layouts under construction
Callers == {"a", "b"}

\* the spacing argument: left out (the default applies), 0 or 20
Spacings == {undefined, Num(0), Num(20)}

\* the component list of the index file, with the button of attempt 001 (which has
\* a height) or the one of attempt 002 (which has none)
InitLegacy ==
    /\ InitCommon
    /\ app = "001"
    /\ \E b \in {createButton001("Click Me", 50, 50, 150, 50),
                  createButton("Click Me", 50, 50, 150, 50, Fn("Click Me"))} :
           components = <<b, IndexSlider>>
    /\ ui = flexColumn("ui", <<>>, [padding |-> 0])
    /\ value = components[2].value0
    /\ offsets = [id \in ContainerIds |-> undefined]

\* a caller runs resetLayout() itself
ResetLayout ==
    /\ yOffset' = resetLayout(Frame).yOffset
    /\ stacked' = [reset |-> TRUE, calls |-> <<>>]
    /\ last' = [kind |-> "resetLayout"]
    /\ UNCHANGED <<mouseX, mouseY, isMouseClicked, rect, app, components, ui, value,
                   offsets, clicks, running, renders, firstPlaced, pressClicks,
                   sentMove, sentDown>>

\* a caller runs vStack(component, spacing) or vStack(component)
VStack ==
    /\ Len(stacked.calls) < MaxStack
    /\ \E caller \in Callers, i \in DOMAIN components, spacing \in Spacings :
           LET r == vStack(components[i], spacing, Frame)
               call == [caller |-> caller, height |-> components[i].height,
                        spacing |-> spacing, position |-> r.position]
           IN  /\ yOffset' = r.st.yOffset
               /\ stacked' = [stacked EXCEPT !.calls = Append(@, call)]
               /\ last' = [kind |-> "vStack", caller |-> caller, position |-> r.position]
    /\ UNCHANGED <<mouseX, mouseY, isMouseClicked, rect, app, components, ui, value,
                   offsets, clicks, running, renders, firstPlaced, pressClicks,
                   sentMove, sentDown>>

NextLegacy == ResetLayout \/ VStack \/ MainLoop001

SpecLegacy == InitLegacy /\ [][NextLegacy]_vars

(***************************************************************************)
(* Layout claims (attempt 002, SpecLayout).                                *)
(***************************************************************************)
HasSizes(c) ==
    \A i \in DOMAIN c.children :
        c.children[i].width # undefined /\ c.children[i].height # undefined

SizeOf(c, j) ==
    IF c.kind = "flexRow" THEN c.children[j].width[1] ELSE c.children[j].height[1]

RECURSIVE LocalOffset(_, _)
\* padding + the sum over j < i of (size_j + spacing)
LocalOffset(c, i) ==
    IF i = 1 THEN c.padding ELSE LocalOffset(c, i - 1) + SizeOf(c, i - 1) + c.spacing

RootPlaces == SelectSeq(last.log, LAMBDA e : e.op = "place" /\ e.container = "ui")

AllPlaces == SelectSeq(last.log, LAMBDA e : e.op = "place")

\* C1: every render of the same container hands each child the origin the first
\* render handed it.
C1_SameOriginsEveryRender ==
    (last.kind = "frame" /\ renders >= 1) => Placed(last.log) = firstPlaced

\* C2: in one render of a Row (Column) whose children have sizes, the children are
\* rendered once each in insertion order and child i gets the primary-axis offset
\* padding + sum over j < i of (width_j (height_j) + spacing).
C2_OffsetsAccumulateFromPadding ==
    (last.kind = "frame" /\ HasSizes(ui)) =>
        /\ Len(RootPlaces) = Len(ui.children)
        /\ \A i \in DOMAIN RootPlaces :
               /\ RootPlaces[i].index = i
               /\ RootPlaces[i].offset = Num(LocalOffset(ui, i))

\* C3: a container rendered at origin (originX, originY) renders each child at
\* (originX + offset, originY + padding) for a Row and at
\* (originX + padding, originY + offset) for a Column.
C3_ChildAtOriginPlusOffset ==
    last.kind = "frame" =>
        \A i \in DOMAIN AllPlaces :
            LET e == AllPlaces[i]
            IN  e.at = IF e.kind = "flexRow"
                       THEN <<JsAdd(e.origin[1], e.offset), JsAdd(e.origin[2], Num(e.padding))>>
                       ELSE <<JsAdd(e.origin[1], Num(e.padding)), JsAdd(e.origin[2], e.offset)>>

(***************************************************************************)
(* Widget claims (attempt 001 index with either button.js, Spec).          *)
(***************************************************************************)
IsFrame == last.kind = "frame"

\* the buttons and sliders the last frame rendered, in traversal order
Widgets == SelectSeq(last.log, LAMBDA e : e.op \in {"button", "slider"})

\* C4 (as claimed): hover / drag detection is true exactly on the half-open
\* rectangle x <= px < x + w, y <= py < y + h.
C4_HalfOpenHitTest ==
    IsFrame =>
        \A i \in DOMAIN Widgets :
            LET e == Widgets[i]
            IN  e.hovered <=> /\ e.rect[1] <= e.read[1]
                              /\ e.read[1] < e.rect[1] + e.rect[3]
                              /\ e.rect[2] <= e.read[2]
                              /\ e.read[2] < e.rect[2] + e.rect[4]

\* C4 (amended): hover / drag detection is true exactly on the open rectangle:
\* px in x+1 .. x+w-1 and py in y+1 .. y+h-1 for integer pointer positions; all
\* four edges are outside.
C4_OpenHitTest ==
    IsFrame =>
        \A i \in DOMAIN Widgets :
            LET e == Widgets[i]
            IN  e.hovered <=> /\ e.read[1] \in (e.rect[1] + 1)..(e.rect[1] + e.rect[3] - 1)
                              /\ e.read[2] \in (e.rect[2] + 1)..(e.rect[2] + e.rect[4] - 1)

\* a button rendered with the pointer on its left edge, level with its inside, does
\* not hover
C4_Witness ==
    /\ IsFrame
    /\ \E i \in DOMAIN Widgets :
           /\ Widgets[i].op = "button"
           /\ Widgets[i].read[1] = Widgets[i].rect[1]
           /\ Widgets[i].read[2] = Widgets[i].rect[2] + 1
           /\ ~Widgets[i].hovered

\* a frame of the index slider (0, 100, x=50, y=150, width=200, height=10) that starts
\* with the pointer down at a y inside the slider
C5_Frame ==
    /\ last'.kind = "frame"
    /\ components[2] = IndexSlider
    /\ isMouseClicked
    /\ mouseY \in 151..159

\* C5 (as claimed): such a frame with pointer x = 150 leaves value = 50, with x = 50
\* leaves value = 0 and with x = 250 leaves value = 100.
C5_ValueAtEdges ==
    [][C5_Frame => /\ mouseX = 150 => value' = Num(50)
                   /\ mouseX = 50 => value' = Num(0)
                   /\ mouseX = 250 => value' = Num(100)]_vars

\* C5 (amended): such a frame with pointer x = 150 leaves value = 50; with the pointer
\* strictly between x = 50 and x = 250 it leaves value = (pointerX - 50) / 200 * 100;
\* with pointer x = 50 or x = 250 it leaves value as it was.
C5_ValueInsideOnly ==
    [][C5_Frame => /\ mouseX = 150 => value' = Num(50)
                   /\ mouseX \in 51..249 =>
                          /\ value'[2] > 0
                          /\ value'[1] * 200 = (mouseX - 50) * 100 * value'[2]
                   /\ mouseX \in {50, 250} => value' = value]_vars

\* a frame rendered with the pointer down on the slider's right edge after the value
\* was dragged to 75
C5_Witness ==
    /\ IsFrame
    /\ isMouseClicked
    /\ mouseX = 250
    /\ mouseY = 155
    /\ value = Num(75)

\* C6: between a mousedown and the following mouseup a Button's onClick runs at most
\* once, over any number of frames.
C6_OnceClickPerPress ==
    components[1].kind = "button" => pressClicks <= 1

SliderFired(log) == \E i \in DOMAIN log : log[i].op = "slider" /\ log[i].fired

\* C7: once a frame has updated the slider's value, the frames that follow it with no
\* pointer event in between leave value unchanged.
C7_DragFixedPoint ==
    [][(IsFrame /\ SliderFired(last.log) /\ last'.kind = "frame") => value' = value]_vars

\* a dragging frame that found the handle already at the dragged value
C7_Witness ==
    /\ IsFrame
    /\ value = Num(75)
    /\ \E i \in DOMAIN Widgets :
           /\ Widgets[i].op = "slider"
           /\ Widgets[i].fired
           /\ Widgets[i].handle = Num(150)

\* C8: every widget a frame renders reads the pointer state the events before the frame
\* left: the same (x, y, down) for all of them.
C8_FrameReadsOnePointerState ==
    [][last'.kind = "frame" =>
           \A i \in DOMAIN last'.log :
               last'.log[i].op \in {"button", "slider"} =>
                   last'.log[i].read = <<sentMove[1], sentMove[2], sentDown>>]_vars

\* a frame in which the button ran its callback and the slider was rendered after it
C8_Witness ==
    /\ IsFrame
    /\ Len(Widgets) = 2
    /\ Widgets[1].fired
    /\ Widgets[2].read = <<150, 51, TRUE>>

\* C9: the stored position is the canvas-local point of the last mousemove and the
\* down flag is that of the last mousedown / mouseup, (0, 0) and false initially;
\* so a move leaves the flag, and a button event the position, as it was.
C9_PointerStateIsLastEvents ==
    /\ <<mouseX, mouseY>> = sentMove
    /\ isMouseClicked = sentDown

\* a move delivered while the button is held, on a canvas that is not at the
\* viewport's corner
C9_Witness ==
    /\ last.kind = "mousemove"
    /\ rect.left = 8
    /\ last.e.clientX = 158
    /\ isMouseClicked
    /\ mouseX = 150

\* C10: a frame that renders a Button built without onClick throws nothing, runs no
\* callback and writes no state: mainLoop stays scheduled.
C10_NoCallbackNoOp ==
    [][(last'.kind = "frame" /\ components[1].kind = "button"
            /\ components[1].onClick = undefined) =>
           /\ last'.thrown = "none"
           /\ running'
           /\ clicks' = clicks
           /\ <<mouseX', mouseY', isMouseClicked'>> = <<mouseX, mouseY, isMouseClicked>>]_vars

\* a frame rendered the callback-less button hovered with the pointer down
C10_Witness ==
    /\ IsFrame
    /\ running
    /\ \E i \in DOMAIN Widgets :
           /\ Widgets[i].op = "button"
           /\ Widgets[i].onClick = undefined
           /\ Widgets[i].hovered
           /\ Widgets[i].read[3]

\* C11: a Slider with max <= min is rejected at construction, so no frame renders such
\* a slider and none evaluates (value - min) / (max - min) with max = min.
C11_DegenerateSliderRejected ==
    IsFrame =>
        /\ \A i \in DOMAIN components :
               components[i].kind = "slider" => components[i].max > components[i].min
        /\ \A i \in DOMAIN Widgets :
               Widgets[i].op = "slider" => Widgets[i].handle[2] # 0

\* C12: when a callback invoked during a frame fails, the pointer state is what
\* it was (the frame's first widget read it) and every remaining widget is still
\* rendered in that frame.
C12_CallbackFailureIsolated ==
    (IsFrame /\ last.thrown # "none") =>
        /\ Len(Widgets) = Len(components)
        /\ Widgets[1].read = <<mouseX, mouseY, isMouseClicked>>

\* C13: in every frame the surface is cleared exactly once and before any widget
\* draws, and then every component is rendered, once each, in list order.
C13_ClearThenEveryComponentInOrder ==
    IsFrame =>
        /\ last.log # <<>>
        /\ \A i \in DOMAIN last.log : (last.log[i].op = "clear") <=> (i = 1)
        /\ DOMAIN Widgets = DOMAIN components
        /\ \A i \in DOMAIN Widgets :
               /\ Widgets[i].op = IF components[i].kind = "slider" THEN "slider" ELSE "button"
               /\ Widgets[i].rect = <<components[i].x, components[i].y,
                                      components[i].w, components[i].h>>

\* the pointer the frame starts with lies strictly inside the first component
C14_Hovering ==
    LET b == components[1]
    IN  mouseX \in (b.x + 1)..(b.x + b.w - 1) /\ mouseY \in (b.y + 1)..(b.y + b.h - 1)

\* the callback of the first component: the console.log of button.js (001), the
\* onClick of button.js (002)
C14_Callback ==
    IF components[1].kind = "button001" THEN Fn(components[1].label)
    ELSE components[1].onClick

\* C14: a Button with an onClick invokes it exactly once in every frame that starts
\* with the pointer hovering the button and the down flag set, and in no other frame,
\* wherever the press began and however many frames it has lasted.
C14_LevelTriggeredClick ==
    [][(last'.kind = "frame" /\ C14_Callback # undefined) =>
           LET name == C14_Callback[1]
           IN  /\ clicks'[name] = clicks[name] + IF C14_Hovering /\ isMouseClicked THEN 1 ELSE 0
               /\ \A k \in DOMAIN clicks : k # name => clicks'[k] = clicks[k]]_vars

\* the second frame in a row with the pointer held down over the button: the callback
\* has run twice in this press
C14_Witness ==
    /\ IsFrame
    /\ components[1].kind = "button"
    /\ components[1].onClick = Fn("Click Me")
    /\ Widgets[1].fired
    /\ pressClicks = 2
    /\ clicks["Click Me"] = 2

\* the root container has the slider as a child
C15_HasSlider == \E i \in DOMAIN ui.children : ui.children[i] = LayoutSlider

\* the pointer lies strictly inside the bounds the slider was constructed with
C15_InBounds ==
    /\ mouseX \in (LayoutSlider.x + 1)..(LayoutSlider.x + LayoutSlider.w - 1)
    /\ mouseY \in (LayoutSlider.y + 1)..(LayoutSlider.y + LayoutSlider.h - 1)

\* C15: a step changes a Slider's value only if it is a frame that starts with the
\* pointer within the bounds the slider was constructed with and with the down flag
\* set; the value such a frame leaves is min + (pointerX - x) / width * (max - min),
\* whatever origin the container handed to render; and the slider's min, max, x, y,
\* width and height never change.
C15_SliderGuardAndFrame ==
    [][C15_HasSlider =>
           /\ value' # value =>
                  last'.kind = "frame" /\ isMouseClicked /\ C15_InBounds
           /\ (last'.kind = "frame" /\ isMouseClicked /\ C15_InBounds) =>
                  /\ value'[2] > 0
                  /\ (value'[1] - LayoutSlider.min * value'[2]) * LayoutSlider.w
                         = (mouseX - LayoutSlider.x) * (LayoutSlider.max - LayoutSlider.min)
                               * value'[2]
           /\ last'.kind = "frame" =>
                  \A i \in DOMAIN last'.log :
                      last'.log[i].op = "slider" =>
                          last'.log[i].rect = <<LayoutSlider.x, LayoutSlider.y,
                                                LayoutSlider.w, LayoutSlider.h>>
           /\ ui' = ui]_vars

\* a frame dragged the slider to 80 while its container handed it an origin that is
\* not the slider's own (0, 0)
C15_Witness ==
    /\ IsFrame
    /\ value = Num(80)
    /\ \E i \in DOMAIN Widgets :
           /\ Widgets[i].op = "slider"
           /\ Widgets[i].fired
           /\ Widgets[i].at # <<Num(0), Num(0)>>
           /\ Widgets[i].handle # Num(120)

\* C16: a frame of any widget tree leaves the stored pointer position and down flag
\* as they were when it started; only the mousemove / mousedown / mouseup handlers
\* change them.
C16_RenderNeverWritesPointer ==
    [][/\ last'.kind = "frame" =>
              <<mouseX', mouseY', isMouseClicked'>> = <<mouseX, mouseY, isMouseClicked>>
       /\ <<mouseX', mouseY', isMouseClicked'>> # <<mouseX, mouseY, isMouseClicked>> =>
              last'.kind \in {"mousemove", "mousedown", "mouseup"}]_vars

\* a frame of a container in which a button ran its callback and the slider was
\* dragged, and the pointer is still where it was, held down
C16_Witness ==
    /\ IsFrame
    /\ \E i, j \in DOMAIN Widgets :
           /\ Widgets[i].op = "button" /\ Widgets[i].fired
           /\ Widgets[j].op = "slider" /\ Widgets[j].fired
           /\ <<mouseX, mouseY, isMouseClicked>> = Widgets[j].read
    /\ isMouseClicked

\* C17: a Button with width = 0 or height = 0 hovers for no pointer position, so no
\* frame invokes its onClick.
C17_ZeroAreaNeverHovers ==
    /\ IsFrame =>
           \A i \in DOMAIN Widgets :
               (Widgets[i].op = "button"
                    /\ (Widgets[i].rect[3] = 0 \/ Widgets[i].rect[4] = 0)) =>
                   ~Widgets[i].hovered /\ ~Widgets[i].fired
    /\ (components[1].w = 0 \/ components[1].h = 0) =>
           \A k \in DOMAIN clicks : clicks[k] = 0

\* a frame rendered the zero-width button with the pointer held down on the line
\* the button has collapsed to
C17_Witness ==
    /\ IsFrame
    /\ components[1].w = 0
    /\ Widgets[1].read = <<50, 51, TRUE>>
    /\ ~Widgets[1].hovered

\* C18: in the Column of the two 150x50 high-level buttons with spacing = 20 and
\* padding = 20 the buttons' hover rectangles are disjoint: in every frame at most one
\* of the two buttons hovers and at most one of the two callbacks runs.
C18_ColumnButtonsDisjoint ==
    (IsFrame /\ ui = IndexRoot) =>
        \A i, j \in DOMAIN Widgets :
            i # j => /\ Widgets[i].rect # Widgets[j].rect
                     /\ ~(Widgets[i].hovered /\ Widgets[j].hovered)
                     /\ ~(Widgets[i].fired /\ Widgets[j].fired)

\* C19: a Slider with min < max, width > 0 and an initial value in [min, max] has
\* its value in [min, max] after any sequence of pointer events and frames.
C19_ValueInRange ==
    LET s == components[2]
    IN  (s.min < s.max /\ s.w > 0) =>
            /\ value[2] > 0
            /\ s.min * value[2] <= value[1]
            /\ value[1] <= s.max * value[2]

\* a drag with the pointer one pixel inside the left edge left the value at 1/2, and
\* the pointer has since been moved past the right edge with the button held
C19_Witness ==
    /\ components[2] = IndexSlider
    /\ value = <<1, 2>>
    /\ IsFrame
    /\ isMouseClicked
    /\ mouseX = 251
    /\ mouseY = 155

\* C20: a frame that starts after a mouseup with no mousedown since (or before any
\* mousedown) invokes no onClick and changes no Slider value; so a press that is
\* released before the next frame is never seen.
C20_PressesSampledNotQueued ==
    [][(last'.kind = "frame" /\ ~sentDown) => clicks' = clicks /\ value' = value]_vars

\* after a press that ran the callback once, a second press was made and released,
\* and the frame that followed found the button hovered and ran nothing
C20_Witness ==
    /\ IsFrame
    /\ ~sentDown
    /\ Widgets[1].hovered
    /\ ~Widgets[1].fired
    /\ clicks["Click Me"] = 1
    /\ pressClicks = 0
    /\ components[1].kind = "button"
    /\ components[1].onClick = Fn("Click Me")

(***************************************************************************)
(* Legacy layout claim (SpecLegacy).                                       *)
(***************************************************************************)
RECURSIVE C21_Sum(_, _)
\* 10 plus (height + spacing) of the first k calls, in JavaScript's arithmetic
C21_Sum(calls, k) ==
    IF k = 0 THEN Num(10)
    ELSE LET c == calls[k]
             sp == IF c.spacing = undefined THEN Num(10) ELSE c.spacing
         IN  JsAdd(C21_Sum(calls, k - 1), JsAdd(ToNumber(c.height), sp))

\* C21: after resetLayout(), the k-th call of vStack (counting from 0) returns x = 10
\* and y = 10 + the sum over the k calls before it, by whichever caller, of
\* (component.height + spacing); the next call starts from 10 + the sum over all of
\* them; so the calls that follow each frame's resetLayout() get positions that
\* depend on nothing but those calls.
C21_LegacyStack ==
    stacked.reset =>
        /\ \A k \in DOMAIN stacked.calls :
               /\ stacked.calls[k].position.x = Num(10)
               /\ stacked.calls[k].position.y = C21_Sum(stacked.calls, k - 1)
        /\ yOffset = C21_Sum(stacked.calls, Len(stacked.calls))

\* since the last resetLayout() caller "a" stacked the button with spacing 20 and
\* caller "b" then got y = 10 + (50 + 20) = 80 for the slider, which left the
\* accumulator at 80 + (10 + 10) = 100
C21_Witness ==
    /\ stacked.reset
    /\ last.kind = "vStack"
    /\ last.caller = "b"
    /\ Len(stacked.calls) = 2
    /\ stacked.calls[1].caller = "a"
    /\ last.position = [x |-> Num(10), y |-> Num(80)]
    /\ yOffset = Num(100)

====
